---- MODULE Spec2Model ----
(***************************************************************************)
(* Lane rendering (editor/src/render/lane.rs) and the map-edits manager    *)
(* (editor/src/plugins/edit/map_edits.rs) of the street-map editor.        *)
(*                                                                         *)
(* Distances are f64 metres in the code.  Here every distance is an        *)
(* integer number of HALF METRES, so that LANE_THICKNESS (2.5 m) and the   *)
(* dash constants (1 m, 2 m) are all integers.  A polyline is represented  *)
(* by its arc-length parametrisation: the point at distance d along a      *)
(* polyline is d itself, and a line segment built from such points records *)
(* the arc-length positions it was built from.                             *)
(***************************************************************************)
EXTENDS Integers, Sequences, FiniteSets, TLC

\* ------------------------------------------------------------ constants
\* geometry::LANE_THICKNESS, 2.5 m
LANE_THICKNESS == 5
\* map_model::PARKING_SPOT_LENGTH, 8 m
PARKING_SPOT_LENGTH == 16
\* geometry::BIG_ARROW_THICKNESS, in centimetres
BIG_ARROW_THICKNESS == 50
\* lane.rs:13 (a zoom level, no unit)
MIN_ZOOM_FOR_LANE_MARKERS == 5
\* lane.rs:267, 2.0 m
dash_separation == 4
\* lane.rs:268, 1.0 m
dash_len == 2

\* ------------------------------------------------------------ bounds
\* longest lane centre line, half metres
MaxLen == 64
\* most times the primary map state is reloaded
MaxReloads == 2

\* by how much the blindly shifted edge of a driving lane may be longer than
\* its centre line (a bend changes the length of the shifted polyline)
EdgeDeltas == {-1, 0, 1}
\* offset indices of a lane in its road
Offsets == 0 .. 2
\* numbers of line segments of a lane centre line
LineCounts == 1 .. 2

LaneTypes == {"Driving", "Parking", "Sidewalk", "Biking"}
LaneIDs == {0, 1}
ZoomLevels == (MIN_ZOOM_FOR_LANE_MARKERS - 1) .. (MIN_ZOOM_FOR_LANE_MARKERS + 1)
\* RenderOptions.color: None is <<>>, Some(c) is <<c>>
OverrideColors == {<<>>, <<"Highlight">>}

Max(a, b) == IF a >= b THEN a ELSE b

\* names an edit set can have; the third makes "Save <name>" read like
\* the "Save these new map edits" entry
EditNames == {"no_edits", "a", "these new map edits"}

VARIABLES
    lane,       \* map_model::Lane being rendered
    road,       \* its parent map_model::Road, as seen from this lane
    dst_i,      \* its destination intersection and that one's control state
    draw_lane,  \* the DrawLane built for the lane ("none" before DrawLane::new)
    frame,      \* what the last DrawLane::draw call sent to the GfxCtx
    edits_manager,    \* Option<EditsManager>: <<>> or <<[wizard |-> ...]>>
    primary,          \* *ctx.primary, the PerMapUI
    primary_plugins,  \* *primary_plugins, the PluginsPerMap
    stored,           \* names of the edit sets saved on disk
    last              \* what the last blocking_event_with_plugins call did

lane_vars == <<lane, road, dst_i, draw_lane, frame>>

edits_vars == <<edits_manager, primary, primary_plugins, stored, last>>

\* ------------------------------------------------------------ geometry
\* PolyLine::safe_dist_along on a polyline of length len: None outside
\* [0, len], otherwise Some(point at d)
safe_dist_along(len, d) == IF d < 0 \/ d > len THEN <<>> ELSE <<d>>

\* PolyLine::dist_along panics exactly where safe_dist_along has no result
dist_along_panics(len, d) == safe_dist_along(len, d) = <<>>

\* the point PolyLine::dist_along returns when it does not panic
dist_along(len, d) == safe_dist_along(len, d)[1]

\* perp_line(Line::new(pt, pt.project_away(1.0, angle)), length): the segment
\* of that length perpendicular to the polyline, centred on the point at pt
perp_line(pt, length) == [kind |-> "perp", at |-> pt, to |-> pt, len |-> length]

new_perp_line(pt, length) == [kind |-> "perp", at |-> pt, to |-> pt, len |-> length]

\* Lane::is_driving
is_driving(l) == l.lane_type = "Driving"

\* Road::is_canonical_lane
is_canonical_lane(r, id) == r.canonical_lane = id

\* Road::dir_and_offset(lane).1
dir_and_offset_1(r, id) == r.offset

\* Lane::number_parking_spots: the spots that fit, none next to the two
\* intersections
number_parking_spots(l) ==
    LET spots == (l.length \div PARKING_SPOT_LENGTH) - 2
    IN  IF spots >= 1 THEN spots ELSE 0

Marking(lines, color, thickness, round) ==
    [lines |-> lines, color |-> color, thickness |-> thickness, round |-> round]

\* result of a marking calculation: it panicked, or it returned 0 or more markings
Panicked == [panic |-> TRUE, out |-> <<>>]
Returned(ms) == [panic |-> FALSE, out |-> ms]

\* ------------------------------------------------------------ markings
\* the while loop of calculate_sidewalk_lines, from dist_along on
RECURSIVE sidewalk_loop(_, _, _)
sidewalk_loop(l, d, lines) ==
    LET tile_every == LANE_THICKNESS
    IN  IF d < l.length - tile_every
        THEN IF dist_along_panics(l.length, d)
             THEN Panicked
             ELSE sidewalk_loop(l, d + tile_every,
                      Append(lines, perp_line(dist_along(l.length, d), LANE_THICKNESS)))
        ELSE Returned(<<Marking(lines, "SidewalkMarking", 25, FALSE)>>)

\* calculate_sidewalk_lines with "<=" in place of "<" in the loop condition
RECURSIVE sidewalk_loop_le(_, _, _)
sidewalk_loop_le(l, d, lines) ==
    LET tile_every == LANE_THICKNESS
    IN  IF d <= l.length - tile_every
        THEN IF dist_along_panics(l.length, d)
             THEN Panicked
             ELSE sidewalk_loop_le(l, d + tile_every,
                      Append(lines, perp_line(dist_along(l.length, d), LANE_THICKNESS)))
        ELSE Returned(<<Marking(lines, "SidewalkMarking", 25, FALSE)>>)

calculate_sidewalk_lines_le(l) == sidewalk_loop_le(l, LANE_THICKNESS, <<>>)

calculate_sidewalk_lines(l) == sidewalk_loop(l, LANE_THICKNESS, <<>>)

\* the for loop of calculate_parking_lines, from idx on
RECURSIVE parking_loop(_, _, _, _)
parking_loop(l, idx, num_spots, lines) ==
    IF idx <= num_spots
    THEN LET d == PARKING_SPOT_LENGTH * (1 + idx)
         IN  IF dist_along_panics(l.length, d)
             THEN Panicked
             ELSE LET pt == dist_along(l.length, d)
                      leg_length == 2
                  IN  parking_loop(l, idx + 1, num_spots,
                          lines \o << [kind |-> "perp_leg", at |-> pt, to |-> pt,
                                       len |-> leg_length],
                                      [kind |-> "upper_leg", at |-> pt, to |-> pt + leg_length,
                                       len |-> leg_length],
                                      [kind |-> "lower_leg", at |-> pt, to |-> pt - leg_length,
                                       len |-> leg_length] >>)
    ELSE Returned(<<Marking(lines, "ParkingMarking", 25, FALSE)>>)

\* calculate_parking_lines with the range 0..num_spots in place of 0..=num_spots
calculate_parking_lines_exclusive(l) ==
    LET num_spots == number_parking_spots(l)
    IN  IF num_spots > 0
        THEN parking_loop(l, 0, num_spots - 1, <<>>)
        ELSE Returned(<<Marking(<<>>, "ParkingMarking", 25, FALSE)>>)

calculate_parking_lines(l) ==
    LET num_spots == number_parking_spots(l)
    IN  IF num_spots > 0
        THEN parking_loop(l, 0, num_spots, <<>>)
        ELSE Returned(<<Marking(<<>>, "ParkingMarking", 25, FALSE)>>)

\* the loop of calculate_driving_lines, from start on; lane_len is the length
\* of the shifted edge polyline
RECURSIVE driving_loop(_, _, _)
driving_loop(lane_len, start, lines) ==
    IF start + dash_len >= lane_len - dash_separation
    THEN Returned(<<Marking(lines, "DrivingLaneMarking", 25, FALSE)>>)
    ELSE IF dist_along_panics(lane_len, start) \/ dist_along_panics(lane_len, start + dash_len)
         THEN Panicked
         ELSE driving_loop(lane_len, start + dash_len + dash_separation,
                  Append(lines, [kind |-> "dash",
                                 at |-> dist_along(lane_len, start),
                                 to |-> dist_along(lane_len, start + dash_len),
                                 len |-> dash_len]))

\* calculate_driving_lines without the early return for offset 0
calculate_driving_lines_every_lane(l, parent) ==
    driving_loop(l.edge_length, dash_separation, <<>>)

calculate_driving_lines(l, parent) ==
    IF dir_and_offset_1(parent, l.id) = 0
    THEN Returned(<<>>)
    ELSE driving_loop(l.edge_length, dash_separation, <<>>)

\* calculate_stop_sign_line without the early return for a priority lane
calculate_stop_sign_line_no_priority(l, control) ==
    LET p == safe_dist_along(l.length, l.length - 2 * LANE_THICKNESS)
    IN  IF p = <<>>
        THEN Returned(<<>>)
        ELSE Returned(<<Marking(<<perp_line(p[1], LANE_THICKNESS)>>,
                                "StopSignMarking", 45, TRUE)>>)

\* calculate_stop_sign_line with dist_along in place of safe_dist_along
calculate_stop_sign_line_unsafe(l, control) ==
    IF control.is_priority_lane
    THEN Returned(<<>>)
    ELSE IF dist_along_panics(l.length, l.length - 2 * LANE_THICKNESS)
         THEN Panicked
         ELSE Returned(<<Marking(<<perp_line(dist_along(l.length,
                                                 l.length - 2 * LANE_THICKNESS),
                                             LANE_THICKNESS)>>,
                                 "StopSignMarking", 45, TRUE)>>)

\* Option<Marking>: None is <<>>, Some(m) is <<m>>
calculate_stop_sign_line(l, control) ==
    IF control.is_priority_lane
    THEN Returned(<<>>)
    ELSE LET p == safe_dist_along(l.length, l.length - 2 * LANE_THICKNESS)
         IN  IF p = <<>>
             THEN Returned(<<>>)
             ELSE Returned(<<Marking(<<perp_line(p[1], LANE_THICKNESS)>>,
                                     "StopSignMarking", 45, TRUE)>>)

\* calculate_id_positions without the early return for lanes that are not
\* driving lanes
calculate_id_positions_any_type(l) ==
    LET p1 == safe_dist_along(l.length, l.length - 2 * LANE_THICKNESS)
        p2 == safe_dist_along(l.length, 2 * LANE_THICKNESS)
    IN  IF p1 = <<>> THEN Returned(<<>>)
        ELSE IF p2 = <<>> THEN Returned(<<>>)
        ELSE Returned(<< <<p1[1], p2[1]>> >>)

\* Option<Vec<Pt2D>>: None is <<>>, Some(v) is <<v>>
calculate_id_positions(l) ==
    IF ~is_driving(l)
    THEN Returned(<<>>)
    ELSE LET p1 == safe_dist_along(l.length, l.length - 2 * LANE_THICKNESS)
             p2 == safe_dist_along(l.length, 2 * LANE_THICKNESS)
         IN  IF p1 = <<>> THEN Returned(<<>>)
             ELSE IF p2 = <<>> THEN Returned(<<>>)
             ELSE Returned(<< <<p1[1], p2[1]>> >>)

\* ------------------------------------------------------------ DrawLane
NoDrawLane ==
    [state |-> "none", id |-> 0, polygon |-> <<>>, start_crossing |-> <<>>,
     end_crossing |-> <<>>, markings |-> <<>>, draw_id_at |-> <<>>]

PanickedDrawLane == [NoDrawLane EXCEPT !.state = "panicked"]

\* the markings of DrawLane::new without the is_canonical_lane test
new_markings_every_lane(l, r, control) ==
    LET orientation ==
            <<Marking(<<[kind |-> "road_center", at |-> 0, to |-> 0, len |-> 0]>>,
                      "RoadOrientation", BIG_ARROW_THICKNESS, TRUE)>>
        typed ==
            CASE l.lane_type = "Sidewalk" -> calculate_sidewalk_lines(l)
              [] l.lane_type = "Parking"  -> calculate_parking_lines(l)
              [] l.lane_type = "Driving"  -> calculate_driving_lines(l, r)
              [] l.lane_type = "Biking"   -> Returned(<<>>)
        stop ==
            IF is_driving(l) /\ ~control.has_traffic_signal
            THEN calculate_stop_sign_line(l, control)
            ELSE Returned(<<>>)
    IN  IF typed.panic \/ stop.panic
        THEN Panicked
        ELSE Returned(orientation \o typed.out \o stop.out)

\* the markings DrawLane::new collects, in order
new_markings(l, r, control) ==
    LET orientation ==
            IF is_canonical_lane(r, l.id)
            THEN <<Marking(<<[kind |-> "road_center", at |-> 0, to |-> 0, len |-> 0]>>,
                           "RoadOrientation", BIG_ARROW_THICKNESS, TRUE)>>
            ELSE <<>>
        typed ==
            CASE l.lane_type = "Sidewalk" -> calculate_sidewalk_lines(l)
              [] l.lane_type = "Parking"  -> calculate_parking_lines(l)
              [] l.lane_type = "Driving"  -> calculate_driving_lines(l, r)
              [] l.lane_type = "Biking"   -> Returned(<<>>)
        stop ==
            IF is_driving(l) /\ ~control.has_traffic_signal
            THEN calculate_stop_sign_line(l, control)
            ELSE Returned(<<>>)
    IN  IF typed.panic \/ stop.panic
        THEN Panicked
        ELSE Returned(orientation \o typed.out \o stop.out)

DrawLane_new(l, r, control) ==
    LET ms == new_markings(l, r, control)
        ids == calculate_id_positions(l)
    IN  IF ms.panic \/ ids.panic
        THEN PanickedDrawLane
        ELSE [state |-> "built",
              id |-> l.id,
              polygon |-> <<[length |-> l.length, width |-> LANE_THICKNESS]>>,
              start_crossing |-> <<new_perp_line(0, LANE_THICKNESS)>>,
              end_crossing |-> <<new_perp_line(l.length, LANE_THICKNESS)>>,
              markings |-> ms.out,
              \* calculate_id_positions(lane).unwrap_or(Vec::new())
              draw_id_at |-> IF ids.out = <<>> THEN <<>> ELSE ids.out[1]]

\* ------------------------------------------------------------ draw
NoFrame == [polygon |-> <<>>, lines |-> <<>>, debug_lines |-> 0,
            debug_circles |-> <<>>, texts |-> <<>>,
            color |-> <<>>, cam_zoom |-> 0, debug_mode |-> FALSE, drawn |-> FALSE]

\* the calls draw makes for one marking: one draw_rounded_line or draw_line
\* per line of the marking
RECURSIVE marking_calls(_, _)
marking_calls(m, i) ==
    IF i > Len(m.lines)
    THEN <<>>
    ELSE <<[call |-> IF m.round THEN "draw_rounded_line" ELSE "draw_line",
            color |-> m.color, thickness |-> m.thickness, line |-> m.lines[i]]>>
         \o marking_calls(m, i + 1)

RECURSIVE markings_calls(_, _)
markings_calls(ms, i) ==
    IF i > Len(ms) THEN <<>> ELSE marking_calls(ms[i], 1) \o markings_calls(ms, i + 1)

\* the fill colour with the broken flag applied after the override
fill_color_broken_wins(l, opt_color) ==
    LET default ==
            CASE l.lane_type = "Driving"  -> "Road"
              [] l.lane_type = "Parking"  -> "Parking"
              [] l.lane_type = "Sidewalk" -> "Sidewalk"
              [] l.lane_type = "Biking"   -> "Biking"
    IN  IF l.probably_broken THEN "Broken"
        ELSE IF opt_color # <<>> THEN opt_color[1]
        ELSE default

\* the colour draw fills the polygon with
fill_color(l, opt_color) ==
    IF opt_color # <<>>
    THEN opt_color[1]
    ELSE LET default ==
                 CASE l.lane_type = "Driving"  -> "Road"
                   [] l.lane_type = "Parking"  -> "Parking"
                   [] l.lane_type = "Sidewalk" -> "Sidewalk"
                   [] l.lane_type = "Biking"   -> "Biking"
         IN  IF l.probably_broken THEN "Broken" ELSE default

\* draw_debug: per centre-line segment one line and two circles (radius in
\* tenths of a metre), and the lane id at every label anchor
RECURSIVE debug_circles(_)
debug_circles(n) == IF n = 0 THEN <<>> ELSE debug_circles(n - 1) \o <<4, 8>>

\* draw with the debug overlay inside the zoom test
draw_frame_debug_when_zoomed(dl, l, opt_color, cam_zoom, debug_mode) ==
    LET zoomed == cam_zoom >= MIN_ZOOM_FOR_LANE_MARKERS
    IN  [polygon |-> <<[color |-> fill_color(l, opt_color), polygon |-> dl.polygon[1]]>>,
         lines |-> IF zoomed THEN markings_calls(dl.markings, 1) ELSE <<>>,
         debug_lines |-> IF zoomed /\ debug_mode THEN l.n_lines ELSE 0,
         debug_circles |-> IF zoomed /\ debug_mode THEN debug_circles(l.n_lines) ELSE <<>>,
         texts |-> IF zoomed /\ debug_mode
                   THEN [i \in 1 .. Len(dl.draw_id_at) |->
                            [text |-> dl.id, at |-> dl.draw_id_at[i]]]
                   ELSE <<>>,
         color |-> opt_color, cam_zoom |-> cam_zoom, debug_mode |-> debug_mode,
         drawn |-> TRUE]

draw_frame(dl, l, opt_color, cam_zoom, debug_mode) ==
    [polygon |-> <<[color |-> fill_color(l, opt_color), polygon |-> dl.polygon[1]]>>,
     lines |-> IF cam_zoom >= MIN_ZOOM_FOR_LANE_MARKERS
               THEN markings_calls(dl.markings, 1)
               ELSE <<>>,
     debug_lines |-> IF debug_mode THEN l.n_lines ELSE 0,
     debug_circles |-> IF debug_mode THEN debug_circles(l.n_lines) ELSE <<>>,
     texts |-> IF debug_mode
               THEN [i \in 1 .. Len(dl.draw_id_at) |-> [text |-> dl.id, at |-> dl.draw_id_at[i]]]
               ELSE <<>>,
     color |-> opt_color, cam_zoom |-> cam_zoom, debug_mode |-> debug_mode,
     drawn |-> TRUE]

\* ------------------------------------------------------------ map edits
\* ezgui::Wizard: the answers confirmed so far, and whether it was aborted
NewWizard == [confirmed |-> <<>>, alive |-> TRUE]

\* Wizard::aborted
aborted(w) == ~w.alive

NoEvent == [kind |-> "none", value |-> ""]

\* One question of a WrappedWizard (choose_string, input_string,
\* choose_something): question number idx is answered from the confirmed
\* answers when it was answered in an earlier event; otherwise the pending
\* input event goes to its menu or text box, which is cancelled, finished
\* with one of its options, or still open.  An event is consumed by the
\* first question that takes it.
ask(w, idx, options, ev) ==
    IF Len(w.confirmed) >= idx
    THEN [ans |-> <<w.confirmed[idx]>>, w |-> w, ev |-> ev]
    ELSE IF ~w.alive
    THEN [ans |-> <<>>, w |-> w, ev |-> ev]
    ELSE IF ev.kind = "cancel"
    THEN [ans |-> <<>>, w |-> [w EXCEPT !.alive = FALSE], ev |-> NoEvent]
    ELSE IF ev.kind = "done" /\ ev.value \in options
    THEN [ans |-> <<ev.value>>,
          w |-> [w EXCEPT !.confirmed = Append(w.confirmed, ev.value)],
          ev |-> NoEvent]
    ELSE [ans |-> <<>>, w |-> w, ev |-> NoEvent]

\* choose_edits(map, wizard, query): one question over the edits stored for
\* the map, and "no_edits"
choose_edits(on_disk, w, idx, ev) == ask(w, idx, on_disk \cup {"no_edits"}, ev)

load == "Load other map edits"
save_new == "Save these new map edits"
save_existing(edits_name) == "Save " \o edits_name

\* what manage_edits leaves behind: its return value (None is <<>>), the
\* match arm it ended in, *current_flags, the edits stored on disk,
\* *new_primary (None is <<>>, else the flags the new PerMapUI was made
\* from), and the wizard
ManageResult(ret, branch, flags, on_disk, new_primary, w) ==
    [ret |-> ret, branch |-> branch, current_flags |-> flags, on_disk |-> on_disk,
     new_primary |-> new_primary, w |-> w]

\* The arms are tried in the order of the match; "unreachable" stands for
\* the unreachable!() of its last arm.
manage_edits(current_flags, map_edits, on_disk, wizard, ev) ==
    LET choices == IF current_flags.edits_name = "no_edits"
                   THEN {save_new, load}
                   ELSE {save_existing(current_flags.edits_name), load}
        q1 == ask(wizard, 1, choices, ev)
        none(branch, w) == ManageResult(<<>>, branch, current_flags, on_disk, <<>>, w)
    IN  IF q1.ans = <<>>
        THEN none("choose_string", q1.w)
        ELSE LET x == q1.ans[1]
             IN  IF x = save_new
                 THEN LET q2 == ask(q1.w, 2, EditNames, q1.ev)
                      IN  IF q2.ans = <<>>
                          THEN none("input_string", q2.w)
                          ELSE ManageResult(<<"()">>, "save_new",
                                   [current_flags EXCEPT !.edits_name = q2.ans[1]],
                                   on_disk \cup {q2.ans[1]}, <<>>, q2.w)
                 ELSE IF x = save_existing(current_flags.edits_name)
                 THEN ManageResult(<<"()">>, "save_existing", current_flags,
                          on_disk \cup {map_edits.edits_name}, <<>>, q1.w)
                 ELSE IF x = load
                 THEN LET q2 == choose_edits(on_disk, q1.w, 2, q1.ev)
                      IN  IF q2.ans = <<>>
                          THEN none("choose_edits", q2.w)
                          ELSE ManageResult(<<"()">>, "load", current_flags, on_disk,
                                   <<[current_flags EXCEPT !.edits_name = q2.ans[1]]>>,
                                   q2.w)
                 ELSE none("unreachable", q1.w)

\* ------------------------------------------------------------ behaviour
\* the lanes considered; only a driving lane has its shifted edge computed
Lanes ==
    { [id |-> i, lane_type |-> t, length |-> len,
       edge_length |-> IF t = "Driving" THEN Max(1, len + e) ELSE len,
       n_lines |-> n, probably_broken |-> b] :
        i \in LaneIDs, t \in LaneTypes, len \in 1 .. MaxLen,
        e \in EdgeDeltas, n \in LineCounts, b \in BOOLEAN }

LaneInit ==
    /\ lane \in Lanes
    /\ road \in [canonical_lane : LaneIDs, offset : Offsets]
    /\ dst_i \in [has_traffic_signal : BOOLEAN, is_priority_lane : BOOLEAN]
    /\ draw_lane = NoDrawLane
    /\ frame = NoFrame

\* PerMapUI::new(flags, None, true) returns a fresh PerMapUI, whose map
\* carries the edits the flags name, and fresh PluginsPerMap; gen tells one
\* instance from another
PerMapUI_new(flags, gen) ==
    [gen |-> gen, current_flags |-> flags, map |-> [edits_name |-> flags.edits_name]]

PluginsPerMap_new(gen) == [gen |-> gen]

\* last: the place manage_edits returned from, the value the handler
\* returned, Wizard::aborted afterwards, and *current_flags as manage_edits
\* left them
NoLast == [branch |-> "none", ret |-> FALSE, aborted |-> FALSE,
           flags |-> [edits_name |-> "no_edits"]]

EditsInit ==
    /\ edits_manager = <<>>
    /\ stored \in SUBSET (EditNames \ {"no_edits"})
    /\ \E n \in EditNames :
          /\ n \in stored \cup {"no_edits"}
          /\ primary = PerMapUI_new([edits_name |-> n], 0)
    /\ primary_plugins = PluginsPerMap_new(0)
    /\ last = NoLast

\* DrawLane::new(lane, map, control_map)
New ==
    /\ draw_lane.state = "none"
    /\ draw_lane' = DrawLane_new(lane, road, dst_i)
    /\ UNCHANGED <<lane, road, dst_i, frame>>
    /\ UNCHANGED edits_vars

\* DrawLane::draw(g, opts, ctx)
Draw ==
    /\ draw_lane.state = "built"
    /\ \E c \in OverrideColors, z \in ZoomLevels, dbg \in BOOLEAN :
           frame' = draw_frame(draw_lane, lane, c, z, dbg)
    /\ UNCHANGED <<lane, road, dst_i, draw_lane>>
    /\ UNCHANGED edits_vars

\* EditsManager::new, when the "manage map edits" action is chosen
EditsManager_new ==
    /\ edits_manager = <<>>
    /\ edits_manager' = <<[wizard |-> NewWizard]>>
    /\ UNCHANGED <<primary, primary_plugins, stored, last>>
    /\ UNCHANGED lane_vars

\* input events of one tick: nothing, escape, or a finished menu / text box
Events ==
    {NoEvent, [kind |-> "cancel", value |-> ""]}
    \cup { [kind |-> "done", value |-> v] :
             v \in {load, save_new} \cup { save_existing(n) : n \in EditNames } \cup EditNames }

\* blocking_event_with_plugins without "*primary_plugins = plugins"
blocking_event_keeps_old_plugins(ev) ==
    LET m == manage_edits(primary.current_flags, primary.map, stored,
                          edits_manager[1].wizard, ev)
        is_some == m.ret # <<>>
        ret == IF is_some THEN FALSE ELSE ~aborted(m.w)
    IN  /\ m.new_primary # <<>> => primary.gen < MaxReloads
        /\ IF is_some /\ m.new_primary # <<>>
           THEN /\ primary' = PerMapUI_new(m.new_primary[1], primary.gen + 1)
                /\ UNCHANGED primary_plugins
           ELSE /\ primary' = [primary EXCEPT !.current_flags = m.current_flags]
                /\ UNCHANGED primary_plugins
        /\ stored' = m.on_disk
        /\ edits_manager' = IF ret THEN <<[wizard |-> m.w]>> ELSE <<>>
        /\ last' = [branch |-> m.branch, ret |-> ret, aborted |-> aborted(m.w),
                     flags |-> m.current_flags]

\* EditsManager::blocking_event_with_plugins; a plugin whose event handler
\* returns false is dropped
blocking_event_with_plugins(ev) ==
    LET m == manage_edits(primary.current_flags, primary.map, stored,
                          edits_manager[1].wizard, ev)
        is_some == m.ret # <<>>
        ret == IF is_some THEN FALSE ELSE ~aborted(m.w)
    IN  /\ m.new_primary # <<>> => primary.gen < MaxReloads
        /\ IF is_some /\ m.new_primary # <<>>
           THEN /\ primary' = PerMapUI_new(m.new_primary[1], primary.gen + 1)
                /\ primary_plugins' = PluginsPerMap_new(primary.gen + 1)
           ELSE /\ primary' = [primary EXCEPT !.current_flags = m.current_flags]
                /\ UNCHANGED primary_plugins
        /\ stored' = m.on_disk
        /\ edits_manager' = IF ret THEN <<[wizard |-> m.w]>> ELSE <<>>
        /\ last' = [branch |-> m.branch, ret |-> ret, aborted |-> aborted(m.w),
                     flags |-> m.current_flags]

BlockingEvent ==
    /\ edits_manager # <<>>
    /\ \E ev \in Events : blocking_event_with_plugins(ev)
    /\ UNCHANGED lane_vars

vars == <<lane, road, dst_i, draw_lane, frame,
          edits_manager, primary, primary_plugins, stored, last>>

\* lane rendering, with the edits manager left alone
Init ==
    /\ LaneInit
    /\ edits_manager = <<>>
    /\ stored = {}
    /\ primary = PerMapUI_new([edits_name |-> "no_edits"], 0)
    /\ primary_plugins = PluginsPerMap_new(0)
    /\ last = NoLast

Next == New \/ Draw

Spec == Init /\ [][Next]_vars

\* the edits manager, over one lane that is left alone
EditsSpecInit ==
    /\ EditsInit
    /\ lane = [id |-> 0, lane_type |-> "Driving", length |-> MaxLen,
               edge_length |-> MaxLen, n_lines |-> 1, probably_broken |-> FALSE]
    /\ road = [canonical_lane |-> 0, offset |-> 0]
    /\ dst_i = [has_traffic_signal |-> FALSE, is_priority_lane |-> FALSE]
    /\ draw_lane = NoDrawLane
    /\ frame = NoFrame

EditsNext == EditsManager_new \/ BlockingEvent

EditsSpec == EditsSpecInit /\ [][EditsNext]_vars

\* ------------------------------------------------------------ properties
Built == draw_lane.state = "built"

\* the markings of the built DrawLane that carry the given Colors value
MarkingsOf(color) == SelectSeq(draw_lane.markings, LAMBDA m : m.color = color)

\* ceiling of a / b, b > 0
CeilDiv(a, b) == -((-a) \div b)

\* C1: the DrawLane of a road's canonical lane holds exactly one marking of
\* colour RoadOrientation, the DrawLane of any other lane holds none,
\* whatever the lane type, length and intersection control.
C1_OrientationOnlyOnCanonical ==
    Built =>
        Len(MarkingsOf("RoadOrientation")) =
            (IF road.canonical_lane = lane.id THEN 1 ELSE 0)

C1_Witness ==
    /\ Built
    /\ road.canonical_lane = lane.id
    /\ lane.lane_type = "Sidewalk"
    /\ Len(MarkingsOf("RoadOrientation")) = 1
    /\ Len(draw_lane.markings) = 2

\* C2: no stop-line marking when the destination intersection has a traffic
\* signal, nor on a lane that is not a driving lane, nor on a driving lane
\* that holds priority at its stop sign; exactly one, placed 2 x thickness
\* before the end, on a driving lane of length >= 2 x thickness without
\* priority at a stop-sign intersection.
C2_StopLine ==
    Built =>
        LET stop == MarkingsOf("StopSignMarking")
        IN  /\ dst_i.has_traffic_signal => Len(stop) = 0
            /\ lane.lane_type # "Driving" => Len(stop) = 0
            /\ (/\ lane.lane_type = "Driving"
                /\ ~dst_i.has_traffic_signal
                /\ dst_i.is_priority_lane) => Len(stop) = 0
            /\ (/\ lane.lane_type = "Driving"
                /\ ~dst_i.has_traffic_signal
                /\ ~dst_i.is_priority_lane
                /\ lane.length >= 2 * LANE_THICKNESS)
               => /\ Len(stop) = 1
                  /\ Len(stop[1].lines) = 1
                  /\ stop[1].lines[1].at = lane.length - 2 * LANE_THICKNESS

C2_Witness ==
    /\ Built
    /\ lane.lane_type = "Driving"
    /\ ~dst_i.has_traffic_signal
    /\ ~dst_i.is_priority_lane
    /\ lane.length >= 2 * LANE_THICKNESS
    /\ Len(MarkingsOf("StopSignMarking")) = 1

\* C3 as stated: a driving lane shorter than 4 x thickness has no label
\* anchors.
C3_Original_NoAnchorsBelow4Thickness ==
    (Built /\ lane.lane_type = "Driving" /\ lane.length < 4 * LANE_THICKNESS)
        => Len(draw_lane.draw_id_at) = 0

\* C3, amended: construction of a driving lane never fails; a DrawLane has 0
\* or 2 label anchors; a lane that is not a driving lane has 0; a driving
\* lane has 0 when it is shorter than 2 x thickness and otherwise 2, at
\* length - 2 x thickness and at 2 x thickness.
C3_LabelAnchors ==
    /\ lane.lane_type = "Driving" => draw_lane.state # "panicked"
    /\ Built =>
        /\ Len(draw_lane.draw_id_at) \in {0, 2}
        /\ lane.lane_type # "Driving" => Len(draw_lane.draw_id_at) = 0
        /\ (lane.lane_type = "Driving" /\ lane.length < 2 * LANE_THICKNESS)
              => Len(draw_lane.draw_id_at) = 0
        /\ (lane.lane_type = "Driving" /\ lane.length >= 2 * LANE_THICKNESS)
              => draw_lane.draw_id_at =
                     <<lane.length - 2 * LANE_THICKNESS, 2 * LANE_THICKNESS>>

C3_Witness ==
    /\ Built
    /\ lane.lane_type = "Driving"
    /\ lane.length >= 2 * LANE_THICKNESS
    /\ lane.length < 4 * LANE_THICKNESS
    /\ Len(draw_lane.draw_id_at) = 2

\* the ticks of the built sidewalk lane
SidewalkTicks == MarkingsOf("SidewalkMarking")[1].lines

\* C4 as stated, on the lanes where its count is not negative: a sidewalk
\* lane of length L >= 2 x thickness has floor((L - 2 x thickness) /
\* thickness) ticks.
C4_Original_FloorTickCount ==
    (Built /\ lane.lane_type = "Sidewalk" /\ lane.length >= 2 * LANE_THICKNESS)
        => Len(SidewalkTicks) = (lane.length - 2 * LANE_THICKNESS) \div LANE_THICKNESS

\* C4, amended: a sidewalk lane of length L has exactly one sidewalk marking;
\* it holds ceil((L - 2 x thickness) / thickness) ticks, none when that is
\* not positive; consecutive ticks are one thickness apart along the lane;
\* every tick is at least one thickness from the start of the lane and more
\* than one thickness from its end.
C4_SidewalkTicks ==
    (Built /\ lane.lane_type = "Sidewalk") =>
        /\ Len(MarkingsOf("SidewalkMarking")) = 1
        /\ Len(SidewalkTicks) =
               Max(0, CeilDiv(lane.length - 2 * LANE_THICKNESS, LANE_THICKNESS))
        /\ \A i \in 1 .. Len(SidewalkTicks) - 1 :
               SidewalkTicks[i + 1].at - SidewalkTicks[i].at = LANE_THICKNESS
        /\ \A i \in 1 .. Len(SidewalkTicks) :
               /\ SidewalkTicks[i].at >= LANE_THICKNESS
               /\ lane.length - SidewalkTicks[i].at > LANE_THICKNESS

C4_Witness ==
    /\ Built
    /\ lane.lane_type = "Sidewalk"
    /\ lane.length = 4 * LANE_THICKNESS - 1
    /\ Len(SidewalkTicks) = 2

\* C5: a driving lane with offset index 0 has no DrivingLaneMarking, nor has
\* a lane that is not a driving lane; a driving lane with offset index >= 1
\* has exactly one, and it holds at least one dash when the lane's shifted
\* edge is longer than separation + dash + separation, and none otherwise.
C5_DrivingDashes ==
    Built =>
        LET dashes == MarkingsOf("DrivingLaneMarking")
        IN  /\ lane.lane_type # "Driving" => Len(dashes) = 0
            /\ (lane.lane_type = "Driving" /\ road.offset = 0) => Len(dashes) = 0
            /\ (lane.lane_type = "Driving" /\ road.offset >= 1) =>
                  /\ Len(dashes) = 1
                  /\ (Len(dashes[1].lines) >= 1)
                        <=> (lane.edge_length > 2 * dash_separation + dash_len)

C5_Witness ==
    /\ Built
    /\ lane.lane_type = "Driving"
    /\ road.offset >= 1
    /\ Len(MarkingsOf("DrivingLaneMarking")) = 1
    /\ Len(MarkingsOf("DrivingLaneMarking")[1].lines) >= 2

\* C6: the DrawLane of a parking lane holds exactly one ParkingMarking; with
\* n the lane's number of parking spots, the marking has no lines when n = 0
\* and 3 x (n + 1) lines when n > 0: a perpendicular leg, an upper leg and a
\* lower leg at PARKING_SPOT_LENGTH x (1 + idx) for idx = 0 .. n.
C6_ParkingLines ==
    (Built /\ lane.lane_type = "Parking") =>
        LET ps == MarkingsOf("ParkingMarking")
            n == number_parking_spots(lane)
        IN  /\ Len(ps) = 1
            /\ Len(ps[1].lines) = (IF n = 0 THEN 0 ELSE 3 * (n + 1))
            /\ \A i \in 1 .. Len(ps[1].lines) :
                   /\ ps[1].lines[i].at = PARKING_SPOT_LENGTH * (1 + ((i - 1) \div 3))
                   /\ ps[1].lines[i].kind =
                          <<"perp_leg", "upper_leg", "lower_leg">>[((i - 1) % 3) + 1]

C6_Witness ==
    /\ Built
    /\ lane.lane_type = "Parking"
    /\ number_parking_spots(lane) = 2
    /\ Len(MarkingsOf("ParkingMarking")[1].lines) = 9

\* the default colour of a lane type
TypeColor(t) ==
    [Driving |-> "Road", Parking |-> "Parking", Sidewalk |-> "Sidewalk", Biking |-> "Biking"][t]

\* C7: draw fills the polygon with the caller's colour when one is given,
\* broken flag or not; otherwise with Broken when the lane is probably
\* broken; otherwise with the colour of the lane type.
C7_FillColor ==
    frame.drawn =>
        /\ Len(frame.polygon) = 1
        /\ frame.polygon[1].color =
              (IF frame.color # <<>> THEN frame.color[1]
               ELSE IF lane.probably_broken THEN "Broken"
               ELSE TypeColor(lane.lane_type))

C7_Witness ==
    /\ frame.drawn
    /\ frame.color = <<"Highlight">>
    /\ lane.probably_broken
    /\ frame.polygon[1].color = "Highlight"

\* number of lines in all markings of the built DrawLane
RECURSIVE TotalLines(_, _)
TotalLines(ms, i) == IF i > Len(ms) THEN 0 ELSE Len(ms[i].lines) + TotalLines(ms, i + 1)

\* C8: every draw call draws the polygon; it draws every line of every
\* marking when cam_zoom >= MIN_ZOOM_FOR_LANE_MARKERS and no marking line
\* below it; it draws the debug overlay (one line and two circles per
\* centre-line segment, the lane id at every label anchor) when debug_mode
\* is set and nothing of it otherwise, whatever cam_zoom is.
C8_DrawVisibility ==
    frame.drawn =>
        /\ Len(frame.polygon) = 1
        /\ frame.polygon[1].polygon = draw_lane.polygon[1]
        /\ frame.cam_zoom >= MIN_ZOOM_FOR_LANE_MARKERS
              => Len(frame.lines) = TotalLines(draw_lane.markings, 1)
        /\ frame.cam_zoom < MIN_ZOOM_FOR_LANE_MARKERS => Len(frame.lines) = 0
        /\ frame.debug_mode =>
              /\ frame.debug_lines = lane.n_lines
              /\ Len(frame.debug_circles) = 2 * lane.n_lines
              /\ Len(frame.texts) = Len(draw_lane.draw_id_at)
              /\ \A i \in 1 .. Len(frame.texts) :
                     /\ frame.texts[i].text = draw_lane.id
                     /\ frame.texts[i].at = draw_lane.draw_id_at[i]
        /\ ~frame.debug_mode =>
              /\ frame.debug_lines = 0
              /\ Len(frame.debug_circles) = 0
              /\ Len(frame.texts) = 0

C8_Witness ==
    /\ frame.drawn
    /\ frame.cam_zoom < MIN_ZOOM_FOR_LANE_MARKERS
    /\ frame.debug_mode
    /\ TotalLines(draw_lane.markings, 1) > 0
    /\ Len(frame.lines) = 0
    /\ Len(frame.texts) = 2

\* C9: DrawLane::new never panics in an arc-length lookup, for any lane
\* type and length: the sidewalk, parking and dash loops only look up
\* distances inside the polyline, and the stop line and the label anchors
\* of a lane shorter than 2 x thickness are left out.
C9_NewNeverPanics ==
    /\ draw_lane.state \in {"none", "built"}
    /\ (Built /\ lane.lane_type = "Driving" /\ lane.length < 2 * LANE_THICKNESS)
          => /\ Len(MarkingsOf("StopSignMarking")) = 0
             /\ Len(draw_lane.draw_id_at) = 0

C9_Witness ==
    /\ Built
    /\ lane.lane_type = "Driving"
    /\ lane.length < 2 * LANE_THICKNESS
    /\ ~dst_i.has_traffic_signal
    /\ ~dst_i.is_priority_lane
    /\ road.offset >= 1
    /\ Len(MarkingsOf("StopSignMarking")) = 0

\* C10: in every call of the edits manager's event handler, the PerMapUI
\* and the PluginsPerMap are replaced, both or neither, and they are
\* replaced exactly when manage_edits completes in its "Load other map
\* edits" arm; completing in the save-new arm changes only the edits name of
\* the current flags, to the name entered (the name the edits are stored
\* under); completing in the save-existing
\* arm leaves the flags as they were; while the wizard is incomplete nothing
\* of the map state changes and the plugin stays active exactly when the
\* wizard was not aborted; a completed wizard deactivates the plugin.
C10_ReplacedOnlyByLoad ==
    [][ edits_manager # <<>> =>
          /\ (primary'.gen # primary.gen) <=> (last'.branch = "load")
          /\ (primary_plugins' # primary_plugins) <=> (last'.branch = "load")
          /\ last'.branch = "load" => primary_plugins'.gen = primary'.gen
          /\ last'.branch = "save_new" =>
                /\ primary' = [primary EXCEPT !.current_flags.edits_name =
                                                  last'.flags.edits_name]
                /\ primary_plugins' = primary_plugins
                /\ stored' = stored \cup {primary'.current_flags.edits_name}
          /\ last'.branch = "save_existing" =>
                /\ primary' = primary
                /\ primary_plugins' = primary_plugins
          /\ last'.branch \in {"save_new", "save_existing", "load"} =>
                edits_manager' = <<>>
          /\ last'.branch \in {"choose_string", "input_string", "choose_edits"} =>
                /\ primary' = primary
                /\ primary_plugins' = primary_plugins
                /\ stored' = stored
                /\ (edits_manager' # <<>>) <=> ~last'.aborted
          /\ last'.branch # "unreachable"
      ]_vars

C10_Witness ==
    /\ last.branch = "load"
    /\ primary.gen = 1
    /\ primary_plugins.gen = 1
    /\ primary.current_flags.edits_name = "a"
    /\ edits_manager = <<>>

====
